---- MODULE Spec2Model ----
(***************************************************************************)
(* Mesh-to-mesh distance engine of CGAL Polygon_mesh_processing/distance.h *)
(* (src/unnamed/part_000).                                                 *)
(*                                                                         *)
(* Distances are integers in one fixed unit.  A value returned by a        *)
(* function that halves a sum, (a + b) / 2., is recorded in half units     *)
(* (a + b), so that no rounding is introduced by the model.                *)
(***************************************************************************)
EXTENDS Integers, Sequences, FiniteSets, Bags, TLC

\* ------------------------------------------------------------------ bounds
MaxDist == 3
MaxFaces == 2
MaxDepth == 2
MaxDepthNonPositive == 1

\* Distances that occur: on the mesh, near it, far from it.
Dists == {0, 1, MaxDist}

\* error_bound values tried: the strictly positive ones, and the ones the
\* documentation excludes (the code accepts any double, lines 1325-1330).
ErrorBounds == {1, 2}

NonPositiveErrorBounds == {-1, 0}

\* Shapes of the faces of tm1: the set of the squared lengths of the three
\* edges {|v0v1|^2, |v0v2|^2, |v1v2|^2}.  A mesh of one face has either
\* shape, a mesh of several faces has faces of the small shape.
SmallShape == {1, 2}

LargeShape == {2, 4}

FaceShapes(n) == IF n = 1 THEN {SmallShape, LargeShape} ELSE {SmallShape}

VARIABLES
  tm1,                  \* faces of tm1: bag of [sq, h]
  error_bound,          \* parameter error_bound
  candidate_triangles,  \* Heap_type candidate_triangles (a bag)
  global_bounds,        \* Hausdorff_bounds global_bounds = <<first, second>>
  seed_bounds,          \* traversal_traits_tm1.get_global_bounds()
  pc,                   \* position in bounded_error_Hausdorff_impl
  result,               \* returned value, in half units
  iteration,            \* what the last iteration of the loop of line 1391 did
  naive_error_bound,    \* error_bound of bounded_error_Hausdorff_naive_impl
  naive_faces,          \* faces of tm1 the naive loop has not visited yet
  squared_lower_bound,  \* its squared_lower_bound
  naive_pc,             \* its position
  naive_result,         \* its returned value
  original_sample_points, \* argument of approximate_Hausdorff_distance
  sample_points,        \* its local, spatially sorted copy
  tm,                   \* points of the target mesh
  tag,                  \* Concurrency_tag
  entry,                \* the function the caller entered by
  hint,                 \* get(vpm, *vertices(tm).first)
  queries,              \* the calls tree.closest_point(pt, hint) made so far: for each
                        \* loop that ran (the sequential one, or one per range), its
                        \* calls in order
  tasks,                \* sub-ranges tbb::parallel_reduce still has to run
  bodies,               \* the Distance_computation bodies
  ad_pc,                \* position in approximate_Hausdorff_distance_impl
  ad_result,            \* its returned value
  sym_tm,               \* the meshes <<tm1, tm2>> of the caller
  sym_np,               \* their named parameters <<np1, np2>>
  sym_tag,              \* Concurrency_tag of the symmetric distance
  sym_call,             \* 1: called with (tm1, tm2, np1, np2); 2: with (tm2, tm1, np2, np1)
  sym_pc,               \* position in approximate_symmetric_Hausdorff_distance
  sym_samples,          \* sample_points of the directed call under way
  sym_directed,         \* values of the directed calls of lines 1135-1136, call 1 then call 2
  sym_value,            \* values returned by call 1 and call 2
  tie_rule,             \* how the heap orders candidates of equal upper bound
  call_no,              \* 1: first call of the bounded-error function, 2: second call
  seed_candidates,      \* the candidates seeded from tm1, kept for the second call
  geometry,             \* what the closest-point tests and the bounds of sub-triangles
                        \* were found to be, per candidate
  tie_popped,           \* a candidate was popped while another had the same upper bound
  first_result,         \* value returned by the first call
  smesh,                \* the triangle mesh or triangle soup given to the sampler
  np,                   \* the named parameters given to the sampler
  sp_pc,                \* position in Triangle_structure_sampler_base::procede
  use_rs,               \* bool use_rs, line 209
  use_gs,               \* bool use_gs, line 210
  use_ms,               \* bool use_ms, line 211
  nb_pts_a_u,           \* double nb_pts_a_u, line 220, a fraction <<numerator, denominator>>
  nb_pts_l_u,           \* double nb_pts_l_u, line 221, a fraction
  min_sq_edge_length,   \* member min_sq_edge_length, lines 430 and 600
  grid_spacing_,        \* double grid_spacing_, line 230
  out,                  \* the points written to the output iterator, in order
  division_by_zero      \* a quotient with a zero denominator was evaluated

bebVars == <<tm1, error_bound, candidate_triangles, global_bounds, seed_bounds, pc, result,
             iteration>>

naiveVars == <<naive_error_bound, naive_faces, squared_lower_bound, naive_pc, naive_result>>

approxVars == <<original_sample_points, sample_points, tm, tag, entry, hint, queries, tasks, bodies, ad_pc, ad_result>>

symVars == <<sym_tm, sym_np, sym_tag, sym_call, sym_pc, sym_samples, sym_directed, sym_value>>

twoVars == <<tie_rule, call_no, seed_candidates, geometry, tie_popped, first_result>>

samplerVars == <<smesh, np, sp_pc, use_rs, use_gs, use_ms, nb_pts_a_u, nb_pts_l_u,
                 min_sq_edge_length, grid_spacing_, out, division_by_zero>>

restVars == <<symVars, twoVars, samplerVars>>

vars == <<bebVars, naiveVars, approxVars, restVars>>

\* approximate_symmetric_Hausdorff_distance is not called
SymOff ==
  /\ sym_tm = <<>>
  /\ sym_np = <<>>
  /\ sym_tag = "Sequential_tag"
  /\ sym_call = 0
  /\ sym_pc = "off"
  /\ sym_samples = <<>>
  /\ sym_directed = <<>>
  /\ sym_value = <<>>

\* the bounded-error function is not called twice
TwoOff ==
  /\ tie_rule = "unspecified"
  /\ call_no = 0
  /\ seed_candidates = EmptyBag
  /\ geometry = <<>>
  /\ tie_popped = FALSE
  /\ first_result = 0

\* the sampler is not called
SamplerOff ==
  /\ smesh = <<>>
  /\ np = <<>>
  /\ sp_pc = "off"
  /\ use_rs = FALSE
  /\ use_gs = FALSE
  /\ use_ms = FALSE
  /\ nb_pts_a_u = <<0, 1>>
  /\ nb_pts_l_u = <<0, 1>>
  /\ min_sq_edge_length = 0
  /\ grid_spacing_ = 0
  /\ out = <<>>
  /\ division_by_zero = FALSE

RestOff == SymOff /\ TwoOff /\ SamplerOff

\* ----------------------------------------------------------------- helpers
Max2(a, b) == IF a >= b THEN a ELSE b

Abs(x) == IF x >= 0 THEN x ELSE -x

SetMax(S) == CHOOSE x \in S : \A y \in S : y <= x

SetMin(S) == CHOOSE x \in S : \A y \in S : x <= y

Range(s) == {s[i] : i \in DOMAIN s}

SeqToBag(s) == [e \in Range(s) |-> Cardinality({i \in DOMAIN s : s[i] = e})]

Pow4(d) == IF d = 0 THEN 1 ELSE IF d = 1 THEN 4 ELSE IF d = 2 THEN 16
           ELSE IF d = 3 THEN 64 ELSE 256

\* True directed Hausdorff distance from tm1 to tm2: the largest contribution
\* h of a face of tm1.
TrueHausdorff == SetMax({f.h : f \in BagToSet(tm1)})

\* ------------------------------------------- bounded_error_Hausdorff_impl
\* A Candidate_triangle: the triangle (the squared edge lengths sq of the
\* face it comes from and the number d of times it was halved), its
\* contribution h to the directed distance and its Hausdorff bounds
\* m_bounds = (lo, up).
Candidate(sq, d, h, lo, up) == [sq |-> sq, d |-> d, h |-> h, lo |-> lo, up |-> up]

\* Bounds a bounded descent into tm2's tree may return for a triangle of
\* contribution h whose parent has the bounds (parentLo, parentUp): they
\* bracket h, and they tighten the parent's bounds, never loosen them.
LocalBounds(h, parentLo, parentUp) ==
  {<<lo, up>> \in Dists \X Dists :
     parentLo <= lo /\ lo <= h /\ h <= up /\ up <= parentUp}

\* Candidates seeded for the faces of tm1 (get_candidate_triangles).
SeedCandidates(n) ==
  {c \in [sq : FaceShapes(n), d : {0}, h : Dists, lo : Dists, up : Dists] :
     <<c.lo, c.up>> \in LocalBounds(c.h, 0, MaxDist)}

\* get_global_bounds: (min lower, max upper) over the seeded candidates.
SeedGlobalBounds(seeds) ==
  <<SetMin({seeds[i].lo : i \in DOMAIN seeds}), SetMax({seeds[i].up : i \in DOMAIN seeds})>>

\* top() of a queue that is not ordered: any candidate
IsTopUnordered(c) == BagIn(c, candidate_triangles)

\* candidate_triangles.top(): a candidate with the largest upper bound.
IsTop(c) ==
  /\ BagIn(c, candidate_triangles)
  /\ \A x \in BagToSet(candidate_triangles) : x.up <= c.up

\* The while-condition without its test of the queue.
LoopCondGapOnly == global_bounds[2] - global_bounds[1] > error_bound

\* while-condition, line 1391
LoopCond ==
  /\ global_bounds[2] - global_bounds[1] > error_bound
  /\ candidate_triangles # EmptyBag

\* line 1404 without the test of the candidate's own gap
ContributesUpperOnly(c) == c.up > global_bounds[1]

\* if-condition, line 1404
Contributes(c) ==
  /\ c.up > global_bounds[1]
  /\ c.up - c.lo > error_bound

\* squared_error_bound, line 1389
squared_error_bound == error_bound * error_bound

\* third stopping condition, lines 1427-1429: all three edges of the
\* candidate (sq[i] / 4^d) are shorter than the error bound.
EdgesBelowBound(c) ==
  \A e \in c.sq : e < squared_error_bound * Pow4(c.d)

\* second stopping condition, lines 1413-1416: the three vertices can have
\* the same closest triangle of tm2 only where the upper bound is the
\* triangle's actual distance.
SameNearestPossible(c) == c.up = c.h

\* Number of halvings the model follows.  With error_bound > 0 the edge
\* test ends every chain before MaxDepth; with error_bound <= 0 it need not
\* end, and the model follows MaxDepthNonPositive levels.
DepthLimit == IF error_bound > 0 THEN MaxDepth ELSE MaxDepthNonPositive

\* The candidate's lower bound in the place of its upper bound.
PromotedLowerOwn(c) == c.lo

\* global_bounds.first = triangle_bounds.second, lines 1420 and 1432
PromotedLower(c) == c.up

\* Contribution and local bounds a sub-triangle of c may have.
SubChoices(c) ==
  {x \in [h : Dists, lo : Dists, up : Dists] :
     x.h <= c.h /\
     <<x.lo, x.up>> \in LocalBounds(x.h, c.lo, c.up)}

\* Contributions and local bounds of the four sub-triangles of lines
\* 1440-1443.  The sub-triangles cover the parent, so one of them (a) has
\* the parent's contribution.  The inputs tried leave a second one (b) free
\* and give the two others (z) the contribution c.lo with exact bounds.
\* The heap is a bag, so the position of a sub-triangle among the four does
\* not show in the state.
SubTriangles(c) ==
  {<<a, b, z, z>> : a \in {x \in SubChoices(c) : x.h = c.h},
                    b \in SubChoices(c),
                    z \in {x \in SubChoices(c) : x.h = c.lo /\ x.lo = c.lo /\ x.up = c.lo}}

\* Sub-triangles with the edges of their parent, not halved.
SubCandidatesUnhalved(c, k) ==
  [i \in 1..4 |-> Candidate(c.sq, c.d, k[i].h, k[i].lo, k[i].up)]

\* Each sub-triangle has the edges of its parent, halved (midpoints, lines
\* 1437-1439).
SubCandidates(c, k) ==
  [i \in 1..4 |-> Candidate(c.sq, c.d + 1, k[i].h, k[i].lo, k[i].up)]

\* The update of lines 1461-1463 without its comparison: the lower bound of
\* the last sub-triangle is stored unconditionally.
LowerAfterUnguarded(first, subs) == subs[4].lo

\* global_bounds.first after the four updates of lines 1461-1463
LowerAfter(first, subs) == SetMax({first} \cup {subs[i].lo : i \in 1..4})

\* line 1474 without current_max: global_bounds.first alone
UpperAfterLowerOnly(heap, first) == first

\* global_bounds.second of lines 1473-1474
UpperAfter(heap, first) == Max2(SetMax({x.up : x \in BagToSet(heap)}), first)

\* The second stopping condition, line 1416, and the third, lines
\* 1427-1429, with the value each was found to have.
SameNearestTest(holds) == <<"same_nearest_triangle", holds>>

EdgeLengthTest(holds) == <<"edge_length", holds>>

\* One iteration of the loop of lines 1391-1476: the candidate of lines
\* 1394-1396, the stopping conditions evaluated on it, in the order of
\* their evaluation, how the iteration ended, and the candidates pushed at
\* lines 1467-1469.
Iteration(c, tests, outcome, pushed) ==
  [popped |-> c, tests |-> tests, outcome |-> outcome, pushed |-> pushed]

\* No iteration has run yet.
NoIteration == Iteration(Candidate({}, 0, 0, 0, 0), <<>>, "none", <<>>)

\* ------------------------------------- bounded_error_Hausdorff_naive_impl
\* error_bound values the naive implementation is run with; the smallest one
\* resolves every face of the model down to the scale at which the distance
\* to tm2 stops varying.
NaiveErrorBounds == {1, 2}

FinestErrorBound == SetMin(NaiveErrorBounds)

\* approximate_sqrt on the squares the model produces
approximate_sqrt(x) == CHOOSE r \in 0..x : r * r <= x /\ x < (r + 1) * (r + 1)

\* Number of halvings after which all edges of a triangle of shape sq are
\* shorter than eb (the test of line 1508 at successive depths).
NaiveDepth(sq, eb) ==
  SetMin({d \in 0..4 : SetMax(sq) < eb * eb * Pow4(d)})

\* Distance field over a face of contribution h, as the naive recursion sees
\* it: v[d + 1] is the largest distance to tm2 of a vertex of the
\* sub-triangles of depth d.  It does not decrease with d, and at the finest
\* resolution it is h.
Profiles(sq, h) ==
  {v \in [1..(NaiveDepth(sq, FinestErrorBound) + 1) -> {x \in Dists : x <= h}] :
     /\ v[NaiveDepth(sq, FinestErrorBound) + 1] = h
     /\ \A i \in 1..NaiveDepth(sq, FinestErrorBound) : v[i] <= v[i + 1]}

\* lines 1509-1514: the largest distance to tm2 of the three vertices of a
\* sub-triangle of depth d
VertexMax(t, d) == IF d + 1 <= Len(t.v) THEN t.v[d + 1] ELSE t.v[Len(t.v)]

\* Sub-triangles of lines 1518-1529: one holds the point where the larger
\* distance of the next depth is found, on the three others the vertices
\* are no farther from tm2 than the parent's.
HotSubTriangle(t, d) == t

ColdSubTriangle(t, d) ==
  [sq |-> t.sq, v |-> [i \in DOMAIN t.v |-> IF i > d + 1 THEN VertexMax(t, d) ELSE t.v[i]]]

\* The recursion with the test of line 1508 passed one level early (edges
\* below twice the bound).
RECURSIVE recursive_hausdorff_subdivision_shallow(_, _, _)
recursive_hausdorff_subdivision_shallow(t, d, sq_error_bound) ==
  IF SetMax(t.sq) < sq_error_bound * Pow4(d + 1)
  THEN VertexMax(t, d) * VertexMax(t, d)
  ELSE Max2(Max2(recursive_hausdorff_subdivision_shallow(HotSubTriangle(t, d), d + 1, sq_error_bound),
                 recursive_hausdorff_subdivision_shallow(ColdSubTriangle(t, d), d + 1, sq_error_bound)),
            Max2(recursive_hausdorff_subdivision_shallow(ColdSubTriangle(t, d), d + 1, sq_error_bound),
                 recursive_hausdorff_subdivision_shallow(ColdSubTriangle(t, d), d + 1, sq_error_bound)))

\* lines 1492-1532; returns a squared distance
RECURSIVE recursive_hausdorff_subdivision(_, _, _)
recursive_hausdorff_subdivision(t, d, sq_error_bound) ==
  IF SetMax(t.sq) < sq_error_bound * Pow4(d)
  THEN VertexMax(t, d) * VertexMax(t, d)
  ELSE Max2(Max2(recursive_hausdorff_subdivision(HotSubTriangle(t, d), d + 1, sq_error_bound),
                 recursive_hausdorff_subdivision(ColdSubTriangle(t, d), d + 1, sq_error_bound)),
            Max2(recursive_hausdorff_subdivision(ColdSubTriangle(t, d), d + 1, sq_error_bound),
                 recursive_hausdorff_subdivision(ColdSubTriangle(t, d), d + 1, sq_error_bound)))

\* the naive implementation is not called
NaiveOff ==
  /\ naive_error_bound = 0
  /\ naive_faces = EmptyBag
  /\ squared_lower_bound = 0
  /\ naive_pc = "off"
  /\ naive_result = 0

\* lines 1559-1569, on the faces of the same tm1
NaiveInit(seeds) ==
  /\ naive_error_bound \in NaiveErrorBounds
  /\ \E prof \in [DOMAIN seeds -> UNION {Profiles(seeds[i].sq, seeds[i].h) : i \in DOMAIN seeds}] :
       /\ \A i \in DOMAIN seeds : prof[i] \in Profiles(seeds[i].sq, seeds[i].h)
       /\ naive_faces = SeqToBag([i \in DOMAIN seeds |-> [sq |-> seeds[i].sq, v |-> prof[i]]])
  /\ squared_lower_bound = 0
  /\ naive_pc = "faces"
  /\ naive_result = 0

\* lines 1572-1588, one face
NaiveFace(f) ==
  /\ naive_pc = "faces"
  /\ BagIn(f, naive_faces)
  /\ LET triangle_bound ==
           recursive_hausdorff_subdivision(f, 0, naive_error_bound * naive_error_bound)
     IN squared_lower_bound' =
          IF triangle_bound > squared_lower_bound THEN triangle_bound ELSE squared_lower_bound
  /\ naive_faces' = naive_faces (-) SetToBag({f})
  /\ UNCHANGED <<naive_error_bound, naive_pc, naive_result, bebVars, approxVars, restVars>>

\* line 1591
NaiveReturn ==
  /\ naive_pc = "faces"
  /\ naive_faces = EmptyBag
  /\ naive_result' = approximate_sqrt(squared_lower_bound)
  /\ naive_pc' = "done"
  /\ UNCHANGED <<naive_error_bound, naive_faces, squared_lower_bound, bebVars, approxVars, restVars>>

\* ------------------------------------------ approximate_Hausdorff_distance
\* Points lie on a line, at the coordinates of Positions.
MaxSamples == 3

Positions == {0, 1, 2}

squared_distance(p, q) == (p - q) * (p - q)

\* AABB_tree::closest_point(query, hint): the point of the tree closest to
\* query; the hint is kept when no point of the tree is closer than it, the
\* first point in the tree's order is returned otherwise.
closest_point(tree, query, h) ==
  LET best == SetMin({squared_distance(p, query) : p \in tree})
  IN IF squared_distance(h, query) <= best
     THEN h
     ELSE SetMin({p \in tree : squared_distance(p, query) = best})

\* spatial_sort of line 1032: along a line, the points in ascending order
spatial_sort(s) ==
  CHOOSE t \in [DOMAIN s -> Range(s)] :
    /\ \A i \in DOMAIN s : \A j \in DOMAIN s : i <= j => t[i] <= t[j]
    /\ SeqToBag(t) = SeqToBag(s)

\* Lines 119-120 without the comparison: the body keeps the local maximum
\* of the last range it ran.
OverwriteRange(distance, hdist) == hdist

\* lines 119-120: the local maximum of a range is merged into the body
MergeRange(distance, hdist) == IF hdist > distance THEN hdist ELSE distance

\* The loop without its running maximum: the distance of the last sample
\* of the range is what is kept.
DistanceLoopLast(tree, points, begin, end, h, hdist) ==
  IF begin = end
  THEN hdist
  ELSE approximate_sqrt(squared_distance(closest_point(tree, points[end], h), points[end]))

\* the loop of lines 111-118 and of lines 152-160 over the indices
\* begin..end-1 of points (0-based), from hint h and running maximum hdist
RECURSIVE DistanceLoop(_, _, _, _, _, _)
DistanceLoop(tree, points, begin, end, h, hdist) ==
  IF begin = end
  THEN hdist
  ELSE LET nh == closest_point(tree, points[begin + 1], h)
           d == approximate_sqrt(squared_distance(nh, points[begin + 1]))
       IN DistanceLoop(tree, points, begin + 1, end, nh, IF d > hdist THEN d ELSE hdist)

\* The calls hint = tree.closest_point(pt, hint) of lines 113 and 154 that
\* the loop makes over the indices begin..end-1 of points, from hint h:
\* each one as <<pt, hint passed>>.
RECURSIVE QueryLoop(_, _, _, _, _)
QueryLoop(tree, points, begin, end, h) ==
  IF begin = end
  THEN <<>>
  ELSE <<<<points[begin + 1], h>>>>
         \o QueryLoop(tree, points, begin + 1, end, closest_point(tree, points[begin + 1], h))

\* Distance_computation, constructor (lines 89-97) and split constructor
\* (lines 99-104): distance(-1).  parent is the body it was split from,
\* runs counts the ranges it has executed.
NewBody(parent) == [distance |-> -1, parent |-> parent, joined |-> FALSE, runs |-> 0]

\* Distance_computation::join, line 123
JoinDistance(distance, rhs_distance) == Max2(rhs_distance, distance)

\* the bounded-error implementations are not called
BebOff ==
  /\ tm1 = EmptyBag
  /\ error_bound = 0
  /\ candidate_triangles = EmptyBag
  /\ global_bounds = <<0, 0>>
  /\ seed_bounds = <<0, 0>>
  /\ pc = "off"
  /\ result = 0
  /\ iteration = NoIteration

\* approximate_Hausdorff_distance is not called
ApproxOff ==
  /\ original_sample_points = <<>>
  /\ sample_points = <<>>
  /\ tm = {}
  /\ tag = "Sequential_tag"
  /\ entry = "none"
  /\ hint = 0
  /\ queries = {}
  /\ tasks = {}
  /\ bodies = <<>>
  /\ ad_pc = "off"
  /\ ad_result = 0

\* A call of approximate_Hausdorff_distance (line 1016) or of
\* max_distance_to_triangle_mesh (line 1175), which forwards its points and
\* its mesh to the former (lines 1181-1183).  The hint is a vertex of tm.
InitApprox ==
  /\ BebOff
  /\ NaiveOff
  /\ original_sample_points \in UNION {[1..n -> Positions] : n \in 0..MaxSamples}
  /\ sample_points = <<>>
  /\ tm \in (SUBSET Positions) \ {{}}
  /\ tag \in {"Sequential_tag", "Parallel_tag"}
  /\ entry \in {"approximate_Hausdorff_distance", "max_distance_to_triangle_mesh"}
  /\ hint \in tm
  /\ queries = {}
  /\ tasks = {}
  /\ bodies = <<>>
  /\ ad_pc = "start"
  /\ ad_result = 0
  /\ RestOff

\* lines 1028-1040: the copy is sorted; the call of lines 1041-1042 passes
\* original_sample_points
SortSamples ==
  /\ ad_pc = "start"
  /\ sample_points' = spatial_sort(original_sample_points)
  /\ ad_pc' = "impl"
  /\ UNCHANGED <<original_sample_points, tm, tag, entry, hint, queries, tasks, bodies, ad_result,
                 bebVars, naiveVars, restVars>>

\* lines 150-162
SequentialLoop ==
  /\ ad_pc = "impl"
  /\ tag = "Sequential_tag"
  /\ ad_result' = DistanceLoop(tm, original_sample_points, 0, Len(original_sample_points), hint, 0)
  /\ queries' = queries \cup {QueryLoop(tm, original_sample_points, 0,
                                         Len(original_sample_points), hint)}
  /\ ad_pc' = "done"
  /\ UNCHANGED <<original_sample_points, sample_points, tm, tag, entry, hint, tasks, bodies,
                 bebVars, naiveVars, restVars>>

\* lines 142-145: the body f is built and tbb::parallel_reduce is given the
\* range [0, size); it runs nothing on an empty range.
ParallelStart ==
  /\ ad_pc = "impl"
  /\ tag = "Parallel_tag"
  /\ bodies' = <<NewBody(0)>>
  /\ tasks' = IF Len(original_sample_points) = 0
              THEN {}
              ELSE {[begin |-> 0, end |-> Len(original_sample_points), body |-> 1]}
  /\ ad_pc' = "reduce"
  /\ UNCHANGED <<original_sample_points, sample_points, tm, tag, entry, hint, queries, ad_result,
                 bebVars, naiveVars, restVars>>

\* tbb::parallel_reduce splits a range at m; the right half is run by the
\* same body, or, when stolen, by a body made by the split constructor.
SplitRange(t, m, stolen) ==
  /\ ad_pc = "reduce"
  /\ t \in tasks
  /\ t.begin < m /\ m < t.end
  /\ LET right == IF stolen THEN Len(bodies) + 1 ELSE t.body
     IN /\ tasks' = (tasks \ {t}) \cup {[begin |-> t.begin, end |-> m, body |-> t.body],
                                        [begin |-> m, end |-> t.end, body |-> right]}
        /\ bodies' = IF stolen THEN Append(bodies, NewBody(t.body)) ELSE bodies
  /\ UNCHANGED <<original_sample_points, sample_points, tm, tag, entry, hint, queries, ad_pc, ad_result,
                 bebVars, naiveVars, restVars>>

\* Distance_computation::operator(), lines 106-121
RunRange(t) ==
  /\ ad_pc = "reduce"
  /\ t \in tasks
  /\ LET hdist == DistanceLoop(tm, original_sample_points, t.begin, t.end, hint, 0)
     IN bodies' = [bodies EXCEPT ![t.body].distance = MergeRange(@, hdist),
                                 ![t.body].runs = @ + 1]
  /\ queries' = queries \cup {QueryLoop(tm, original_sample_points, t.begin, t.end, hint)}
  /\ tasks' = tasks \ {t}
  /\ UNCHANGED <<original_sample_points, sample_points, tm, tag, entry, hint, ad_pc, ad_result,
                 bebVars, naiveVars, restVars>>

\* Distance_computation::join, line 123: a body that has run its ranges and
\* joined the bodies split from it is joined into the body it was split from.
Join(b) ==
  /\ ad_pc = "reduce"
  /\ b \in DOMAIN bodies
  /\ bodies[b].parent # 0
  /\ ~bodies[b].joined
  /\ \A t \in tasks : t.body # b
  /\ \A c \in DOMAIN bodies : bodies[c].parent = b => bodies[c].joined
  /\ bodies' = [bodies EXCEPT ![bodies[b].parent].distance = JoinDistance(@, bodies[b].distance),
                              ![b].joined = TRUE]
  /\ UNCHANGED <<original_sample_points, sample_points, tm, tag, entry, hint, queries, tasks, ad_pc,
                 ad_result, bebVars, naiveVars, restVars>>

\* line 146: return f.distance
ParallelReturn ==
  /\ ad_pc = "reduce"
  /\ tasks = {}
  /\ \A b \in DOMAIN bodies : bodies[b].parent # 0 => bodies[b].joined
  /\ ad_result' = bodies[1].distance
  /\ ad_pc' = "done"
  /\ UNCHANGED <<original_sample_points, sample_points, tm, tag, entry, hint, queries, tasks, bodies,
                 bebVars, naiveVars, restVars>>

NextApprox ==
  \/ SortSamples
  \/ SequentialLoop
  \/ ParallelStart
  \/ \E t \in tasks : \E m \in 1..MaxSamples : \E stolen \in BOOLEAN : SplitRange(t, m, stolen)
  \/ \E t \in tasks : RunRange(t)
  \/ \E b \in DOMAIN bodies : Join(b)
  \/ ParallelReturn

SpecApprox == InitApprox /\ [][NextApprox]_vars

\* State at line 1389: both trees built, tm1 traversed, candidates seeded.
\* With side_by_side the naive implementation is started on the same tm1.
InitWith(bounds, side_by_side) ==
  /\ error_bound \in bounds
  /\ \E n \in 1..MaxFaces : \E seeds \in [1..n -> SeedCandidates(n)] :
       /\ tm1 = SeqToBag([i \in 1..n |-> [sq |-> seeds[i].sq, h |-> seeds[i].h]])
       /\ candidate_triangles = SeqToBag(seeds)
       /\ global_bounds = SeedGlobalBounds(seeds)
       /\ seed_bounds = SeedGlobalBounds(seeds)
       /\ IF side_by_side THEN NaiveInit(seeds) ELSE NaiveOff
  /\ pc = "loop"
  /\ result = 0
  /\ iteration = NoIteration
  /\ ApproxOff
  /\ RestOff

Init == InitWith(ErrorBounds, FALSE)

InitNonPositive == InitWith(NonPositiveErrorBounds, FALSE)

InitSideBySide == InitWith(ErrorBounds, TRUE)

\* lines 1394-1404, else-branch: the popped candidate is dropped.
Prune(c) ==
  /\ pc = "loop" /\ LoopCond /\ IsTop(c)
  /\ ~Contributes(c)
  /\ candidate_triangles' = candidate_triangles (-) SetToBag({c})
  /\ iteration' = Iteration(c, <<>>, "pruned", <<>>)
  /\ UNCHANGED <<tm1, error_bound, global_bounds, seed_bounds, pc, result, naiveVars, approxVars, restVars>>

\* lines 1413-1422
PromoteSameNearest(c) ==
  /\ pc = "loop" /\ LoopCond /\ IsTop(c)
  /\ Contributes(c)
  /\ SameNearestPossible(c)
  /\ candidate_triangles' = candidate_triangles (-) SetToBag({c})
  /\ global_bounds' = <<PromotedLower(c), global_bounds[2]>>
  /\ iteration' = Iteration(c, <<SameNearestTest(TRUE)>>, "promoted", <<>>)
  /\ UNCHANGED <<tm1, error_bound, seed_bounds, pc, result, naiveVars, approxVars, restVars>>

\* lines 1427-1434
PromoteEdgeLength(c) ==
  /\ pc = "loop" /\ LoopCond /\ IsTop(c)
  /\ Contributes(c)
  /\ EdgesBelowBound(c)
  /\ candidate_triangles' = candidate_triangles (-) SetToBag({c})
  /\ global_bounds' = <<PromotedLower(c), global_bounds[2]>>
  /\ iteration' = Iteration(c, <<SameNearestTest(FALSE), EdgeLengthTest(TRUE)>>, "promoted", <<>>)
  /\ UNCHANGED <<tm1, error_bound, seed_bounds, pc, result, naiveVars, approxVars, restVars>>

\* lines 1436-1474
Subdivide(c) ==
  /\ pc = "loop" /\ LoopCond /\ IsTop(c)
  /\ Contributes(c)
  /\ ~EdgesBelowBound(c)
  /\ c.d < DepthLimit
  /\ \E k \in SubTriangles(c) :
       LET subs == SubCandidates(c, k)
           heap == (candidate_triangles (-) SetToBag({c})) (+) SeqToBag(subs)
           first == LowerAfter(global_bounds[1], subs)
       IN /\ candidate_triangles' = heap
          /\ global_bounds' = <<first, UpperAfter(heap, first)>>
          /\ iteration' = Iteration(c, <<SameNearestTest(FALSE), EdgeLengthTest(FALSE)>>,
                                    "subdivided", subs)
  /\ UNCHANGED <<tm1, error_bound, seed_bounds, pc, result, naiveVars, approxVars, restVars>>

\* line 1479
Return ==
  /\ pc = "loop" /\ ~LoopCond
  /\ result' = global_bounds[1] + global_bounds[2]
  /\ pc' = "done"
  /\ UNCHANGED <<tm1, error_bound, candidate_triangles, global_bounds, seed_bounds, iteration,
                 naiveVars, approxVars, restVars>>

Next ==
  \/ \E c \in BagToSet(candidate_triangles) : Prune(c)
  \/ \E c \in BagToSet(candidate_triangles) : PromoteSameNearest(c)
  \/ \E c \in BagToSet(candidate_triangles) : PromoteEdgeLength(c)
  \/ \E c \in BagToSet(candidate_triangles) : Subdivide(c)
  \/ Return

Spec == Init /\ [][Next]_vars

\* The function runs to its return statement: the loop is sequential code.
FairSpec == Init /\ [][Next]_vars /\ WF_vars(Next)

\* The same function called with an error bound that is not positive.
SpecNonPositive == InitNonPositive /\ [][Next]_vars

\* The naive implementation, then the bounded-error one, on the same input.
NextSideBySide ==
  \/ \E f \in BagToSet(naive_faces) : NaiveFace(f)
  \/ NaiveReturn
  \/ (naive_pc = "done" /\ Next)

SpecSideBySide == InitSideBySide /\ [][NextSideBySide]_vars

\* The naive implementation alone: the loop of lines 1572-1588 and the
\* return of line 1591 are sequential code and run to the end.
NextNaive ==
  \/ \E f \in BagToSet(naive_faces) : NaiveFace(f)
  \/ NaiveReturn

FairSpecNaive == InitSideBySide /\ [][NextNaive]_vars /\ WF_vars(NextNaive)

\* -------------------------------- approximate_symmetric_Hausdorff_distance
\* Number of points a random-uniform sampling draws for each vertex of the
\* sampled mesh (num_vertices(tm) points by default, line 534).
DrawsPerVertex == 1

\* Meshes along the line of Positions: a segment from lo to hi.  Its
\* vertices are its end points, its surface holds the points between them.
LineMeshes == {m \in [lo : Positions, hi : Positions] : m.lo <= m.hi}

vertices(m) == IF m.lo = m.hi THEN <<m.lo>> ELSE <<m.lo, m.hi>>

surface(m) == m.lo..m.hi

\* Named parameters of sample_triangle_mesh that select what is sampled:
\* do_sample_vertices (line 217) and random_uniform_sampling (line 209).
SamplingParameters == [do_sample_vertices : BOOLEAN, random_uniform_sampling : BOOLEAN]

\* Points the random generator of lines 298-306 and 530-538 may draw: n
\* points of the surface of m, whatever the generator's state.
RandomDraws(m, n) == [1..n -> surface(m)]

\* sample_triangle_mesh(tm, back_inserter(sample_points), np), line 1055:
\* the sample sequences it may produce.
sample_triangle_mesh(m, params) ==
  {(IF params.do_sample_vertices THEN vertices(m) ELSE <<>>) \o r :
     r \in IF params.random_uniform_sampling
           THEN RandomDraws(m, DrawsPerVertex * Len(vertices(m)))
           ELSE {<<>>}}

\* approximate_Hausdorff_distance_impl, lines 127-163: the parallel branch
\* returns the initial distance of its body for no sample.
approximate_Hausdorff_distance_impl(t, points, tree, h) ==
  IF t = "Parallel_tag" /\ points = <<>>
  THEN NewBody(0).distance
  ELSE DistanceLoop(tree, points, 0, Len(points), h, 0)

\* line 1134 without its second argument
FirstOnly(a, b) == a

\* (std::max)(a, b), line 1134
SymmetricMax(a, b) == Max2(a, b)

\* The mesh sampled and the mesh measured against by the directed call k of
\* the call under way: call 1 is (tm1, tm2, np1, np2), call 2 is the call
\* with the meshes and their parameters swapped.
SymSource(k) == IF sym_call = 1 THEN k ELSE 3 - k

SymTarget(k) == 3 - SymSource(k)

\* Two calls of approximate_symmetric_Hausdorff_distance by the same caller,
\* the second with the arguments swapped.
InitSymmetric ==
  /\ BebOff
  /\ NaiveOff
  /\ ApproxOff
  /\ TwoOff
  /\ SamplerOff
  /\ sym_tm \in LineMeshes \X LineMeshes
  /\ sym_np \in SamplingParameters \X SamplingParameters
  /\ sym_tag \in {"Sequential_tag", "Parallel_tag"}
  /\ sym_call = 1
  /\ sym_pc = "sample"
  /\ sym_samples = <<>>
  /\ sym_directed = <<>>
  /\ sym_value = <<>>

\* lines 1054-1055: the first mesh of the directed call is sampled with its
\* own named parameters
SampleSource ==
  /\ sym_pc = "sample"
  /\ LET k == (Len(sym_directed) % 2) + 1
     IN sym_samples' \in sample_triangle_mesh(sym_tm[SymSource(k)], sym_np[SymSource(k)])
  /\ sym_pc' = "distance"
  /\ UNCHANGED <<sym_tm, sym_np, sym_tag, sym_call, sym_directed, sym_value,
                 bebVars, naiveVars, approxVars, twoVars, samplerVars>>

\* lines 1057 and 1028-1042: the samples are measured against the second
\* mesh, from the hint get(vpm, *vertices(tm).first)
DirectedDistance ==
  /\ sym_pc = "distance"
  /\ LET k == (Len(sym_directed) % 2) + 1
         target == sym_tm[SymTarget(k)]
     IN sym_directed' = Append(sym_directed,
          approximate_Hausdorff_distance_impl(sym_tag, sym_samples, surface(target),
                                              vertices(target)[1]))
  /\ sym_pc' = IF Len(sym_directed) % 2 = 0 THEN "sample" ELSE "return"
  /\ UNCHANGED <<sym_tm, sym_np, sym_tag, sym_call, sym_samples, sym_value,
                 bebVars, naiveVars, approxVars, twoVars, samplerVars>>

\* line 1134: the larger of the two directed values is returned; the caller
\* then makes the swapped call
SymmetricReturn ==
  /\ sym_pc = "return"
  /\ sym_value' = Append(sym_value, SymmetricMax(sym_directed[2 * sym_call - 1],
                                                  sym_directed[2 * sym_call]))
  /\ IF sym_call = 1
     THEN sym_call' = 2 /\ sym_pc' = "sample"
     ELSE sym_call' = sym_call /\ sym_pc' = "done"
  /\ UNCHANGED <<sym_tm, sym_np, sym_tag, sym_samples, sym_directed,
                 bebVars, naiveVars, approxVars, twoVars, samplerVars>>

NextSymmetric ==
  \/ SampleSource
  \/ DirectedDistance
  \/ SymmetricReturn

SpecSymmetric == InitSymmetric /\ [][NextSymmetric]_vars

\* -------------------------- bounded_error_Hausdorff_impl, called twice
\* Orders in which a heap may yield candidates of equal upper bound: any of
\* them at each pop, or the one an order fixed by the heap puts first or
\* last.
TieRules == {"unspecified", "first", "last"}

\* An order of the candidates that differ by more than the upper bound.
Rank(c) == ((SetMax(c.sq) * 10 + c.d) * 10 + c.h) * 10 + c.lo

\* top() of a heap that yields any candidate of largest upper bound
HeapTopAnyTie(c) == IsTop(c)

\* candidate_triangles.top(), line 1394, of the Heap_type of lines
\* 1352-1358: among the candidates of largest upper bound it yields the one
\* its own order of insertion and sifting determines.
HeapTop(c) ==
  /\ IsTop(c)
  /\ CASE tie_rule = "first" ->
            \A x \in BagToSet(candidate_triangles) : IsTop(x) => Rank(c) <= Rank(x)
       [] tie_rule = "last" ->
            \A x \in BagToSet(candidate_triangles) : IsTop(x) => Rank(c) >= Rank(x)
       [] OTHER -> TRUE

\* Another candidate has the upper bound of the popped one.
Tied(c) == \E x \in BagToSet(candidate_triangles) : x # c /\ x.up = c.up

\* The geometry is that of the input: a candidate met again, in the same
\* call or in the second one, has the closest triangles and the
\* sub-triangles it had before.  <<>> records that its three vertices have
\* the same closest triangle.
Known(c) == c \in DOMAIN geometry

Learn(c, what) == IF Known(c) THEN geometry ELSE geometry @@ (c :> what)

\* The state of line 1389 of the first of two calls on the same input; the
\* record of the last iteration is not kept across the two calls.
InitTwo ==
  /\ error_bound \in ErrorBounds
  /\ \E n \in 1..MaxFaces : \E seeds \in [1..n -> SeedCandidates(n)] :
       /\ tm1 = SeqToBag([i \in 1..n |-> [sq |-> seeds[i].sq, h |-> seeds[i].h]])
       /\ candidate_triangles = SeqToBag(seeds)
       /\ seed_candidates = SeqToBag(seeds)
       /\ global_bounds = SeedGlobalBounds(seeds)
       /\ seed_bounds = SeedGlobalBounds(seeds)
  /\ pc = "loop"
  /\ result = 0
  /\ iteration = NoIteration
  /\ NaiveOff
  /\ ApproxOff
  /\ SymOff
  /\ SamplerOff
  /\ tie_rule \in TieRules
  /\ call_no = 1
  /\ geometry = <<>>
  /\ tie_popped = FALSE
  /\ first_result = 0

\* lines 1394-1404, else-branch
TwoPrune(c) ==
  /\ pc = "loop" /\ LoopCond /\ HeapTop(c)
  /\ ~Contributes(c)
  /\ candidate_triangles' = candidate_triangles (-) SetToBag({c})
  /\ tie_popped' = (tie_popped \/ Tied(c))
  /\ UNCHANGED <<tm1, error_bound, global_bounds, seed_bounds, pc, result, iteration,
                 tie_rule, call_no, seed_candidates, geometry, first_result,
                 naiveVars, approxVars, symVars, samplerVars>>

\* lines 1413-1422 and 1427-1434: the candidate is not subdivided
TwoPromote(c) ==
  /\ pc = "loop" /\ LoopCond /\ HeapTop(c)
  /\ Contributes(c)
  /\ \/ /\ EdgesBelowBound(c)
        /\ geometry' = geometry
     \/ /\ ~EdgesBelowBound(c)
        /\ SameNearestPossible(c)
        /\ Known(c) => geometry[c] = <<>>
        /\ geometry' = Learn(c, <<>>)
  /\ candidate_triangles' = candidate_triangles (-) SetToBag({c})
  /\ global_bounds' = <<PromotedLower(c), global_bounds[2]>>
  /\ tie_popped' = (tie_popped \/ Tied(c))
  /\ UNCHANGED <<tm1, error_bound, seed_bounds, pc, result, iteration,
                 tie_rule, call_no, seed_candidates, first_result,
                 naiveVars, approxVars, symVars, samplerVars>>

\* lines 1436-1474
TwoSubdivide(c) ==
  /\ pc = "loop" /\ LoopCond /\ HeapTop(c)
  /\ Contributes(c)
  /\ ~EdgesBelowBound(c)
  /\ c.d < DepthLimit
  /\ Known(c) => geometry[c] # <<>>
  /\ \E k \in SubTriangles(c) :
       LET subs == SubCandidates(c, k)
           heap == (candidate_triangles (-) SetToBag({c})) (+) SeqToBag(subs)
           first == LowerAfter(global_bounds[1], subs)
       IN /\ Known(c) => k = geometry[c]
          /\ geometry' = Learn(c, k)
          /\ candidate_triangles' = heap
          /\ global_bounds' = <<first, UpperAfter(heap, first)>>
  /\ tie_popped' = (tie_popped \/ Tied(c))
  /\ UNCHANGED <<tm1, error_bound, seed_bounds, pc, result, iteration,
                 tie_rule, call_no, seed_candidates, first_result,
                 naiveVars, approxVars, symVars, samplerVars>>

\* line 1479
TwoReturn ==
  /\ pc = "loop" /\ ~LoopCond
  /\ result' = global_bounds[1] + global_bounds[2]
  /\ pc' = "done"
  /\ UNCHANGED <<tm1, error_bound, candidate_triangles, global_bounds, seed_bounds, iteration,
                 twoVars, naiveVars, approxVars, symVars, samplerVars>>

\* The caller keeps the value and calls the function again on the same
\* meshes with the same error bound: lines 1360-1389 seed the same
\* candidates and the same global bounds.
SecondCall ==
  /\ pc = "done" /\ call_no = 1
  /\ first_result' = result
  /\ call_no' = 2
  /\ candidate_triangles' = seed_candidates
  /\ global_bounds' = seed_bounds
  /\ pc' = "loop"
  /\ UNCHANGED <<tm1, error_bound, seed_bounds, result, iteration,
                 tie_rule, seed_candidates, geometry, tie_popped,
                 naiveVars, approxVars, symVars, samplerVars>>

NextTwo ==
  \/ \E c \in BagToSet(candidate_triangles) : TwoPrune(c)
  \/ \E c \in BagToSet(candidate_triangles) : TwoPromote(c)
  \/ \E c \in BagToSet(candidate_triangles) : TwoSubdivide(c)
  \/ TwoReturn
  \/ SecondCall

SpecTwo == InitTwo /\ [][NextTwo]_vars

\* ------------------------------- Triangle_structure_sampler_base::procede
\* (std::numeric_limits<double>::max)(), the value of min_sq_edge_length
\* before any edge was measured
numeric_limits_max == 1000000

\* Points of the plane with integer coordinates; the inputs have edges of
\* integer length, so that approximate_sqrt is exact on them.
\* A mesh of two faces that share the edge 2-3 (sides 3, 4, 5).
TwoFaceMesh ==
  [kind |-> "mesh",
   points |-> << <<0, 0>>, <<3, 0>>, <<0, 4>>, <<3, 4>> >>,
   triangles |-> << <<1, 2, 3>>, <<2, 4, 3>> >>]

\* A mesh of one face with an edge of length zero (vertices 2 and 3 at the
\* same point).
DegenerateMesh ==
  [kind |-> "mesh",
   points |-> << <<0, 0>>, <<2, 0>>, <<2, 0>> >>,
   triangles |-> << <<1, 2, 3>> >>]

\* A soup of one triangle and four points.
OneTriangleSoup ==
  [kind |-> "soup",
   points |-> << <<0, 0>>, <<3, 0>>, <<0, 4>>, <<3, 4>> >>,
   triangles |-> << <<1, 2, 3>> >>]

SamplerInputs == {TwoFaceMesh, DegenerateMesh, OneTriangleSoup}

\* Values of the named parameters; a parameter with default value 0 that is
\* not given reads as 0 (choose_parameter), random_uniform_sampling alone is
\* asked whether it was given (is_default_parameter, line 214).
NamedParameters ==
  [random_uniform_sampling : {"default", "true", "false"},
   grid_sampling : BOOLEAN,
   monte_carlo_sampling : BOOLEAN,
   do_sample_vertices : BOOLEAN,
   do_sample_edges : BOOLEAN,
   do_sample_faces : BOOLEAN,
   grid_spacing : {0, 1, 4},
   number_of_points_per_face : {0, 2},
   number_of_points_per_edge : {0, 2},
   nb_points_per_area_unit : {<<0, 1>>, <<1, 4>>, <<3, 1>>},
   nb_points_per_distance_unit : {<<0, 1>>, <<2, 1>>},
   number_of_points_on_faces : {0, 5},
   number_of_points_on_edges : {0, 4}]

\* Fractions <<numerator, denominator>> of non-negative integers.
RatMul(a, b) == <<a[1] * b[1], a[2] * b[2]>>

IsZero(a) == a[1] = 0

\* std::ceil of a fraction
Ceil(a) == (a[1] + a[2] - 1) \div a[2]

\* static_cast<std::size_t> of a fraction
Truncate(a) == a[1] \div a[2]

\* std::ceil(d / distance), lines 62-63 and 355
CeilDiv(d, distance) == Ceil(<<d, distance>>)

\* A point written to the output: a vertex, the a-th of the n steps along
\* an edge, the grid point of barycentric coordinates (a/n, b/n, c/n) of a
\* face, or a random point of a face, of an edge, of all faces or of all
\* edges.
OutPoint(kind, id, a, b, c, n) == <<kind, id, a, b, c, n>>

Repeat(point, n) == [k \in 1..n |-> point]

\* Compute_squared_distance_3
Compute_squared_distance_3(p, q) ==
  (p[1] - q[1]) * (p[1] - q[1]) + (p[2] - q[2]) * (p[2] - q[2])

\* length of the segment between two vertices, lines 59-60, 353, 511-513
EdgeLength(m, a, b) ==
  approximate_sqrt(Compute_squared_distance_3(m.points[a], m.points[b]))

\* edge(hd, tm): the edge of a halfedge and of its opposite
EdgeId(a, b) == IF a < b THEN 10 * a + b ELSE 10 * b + a

\* the halfedges source -> target around the triangle t
Halfedges(t) == << <<t[1], t[2]>>, <<t[2], t[3]>>, <<t[3], t[1]>> >>

\* edges(tm), and the sides of the triangles of a soup (lines 628-634)
edges(m) ==
  {IF h[1] < h[2] THEN h ELSE <<h[2], h[1]>> :
     h \in UNION {Range(Halfedges(m.triangles[f])) : f \in DOMAIN m.triangles}}

\* num_vertices(tm), points.size(): get_points_size, lines 551-554, 690-693
get_points_size(m) == Len(m.points)

\* twice the area of a triangle, and get_tr_area, lines 479-482 and 644-650
TwiceArea(m, t) ==
  Abs((m.points[t[2]][1] - m.points[t[1]][1]) * (m.points[t[3]][2] - m.points[t[1]][2])
      - (m.points[t[3]][1] - m.points[t[1]][1]) * (m.points[t[2]][2] - m.points[t[1]][2]))

get_tr_area(m, t) == <<TwiceArea(m, t), 2>>

RECURSIVE SumOver(_, _)
SumOver(S, fn) ==
  IF S = {} THEN 0 ELSE LET x == CHOOSE y \in S : TRUE IN fn[x] + SumOver(S \ {x}, fn)

\* Random_points_in_triangle_mesh_3::sum_of_weights: the area of the faces
sum_of_weights(m) ==
  <<SumOver(DOMAIN m.triangles, [f \in DOMAIN m.triangles |-> TwiceArea(m, m.triangles[f])]), 2>>

\* Random_points_on_edge_list_graph_3::mesh_length: the length of the edges
mesh_length(m) ==
  <<SumOver(edges(m), [e \in edges(m) |-> EdgeLength(m, e[1], e[2])]), 1>>

\* get_minimum_edge_length, lines 459-477 and 623-642: the value it returns
\* and leaves in min_sq_edge_length
get_minimum_edge_length(m, cached) ==
  IF cached # numeric_limits_max
  THEN cached
  ELSE SetMin({numeric_limits_max} \cup
              {Compute_squared_distance_3(m.points[e[1]], m.points[e[2]]) : e \in
                 {x \in edges(m) : Compute_squared_distance_3(m.points[x[1]], m.points[x[2]]) > 0}})

\* line 69: the coordinates c0, c1, c2 of a grid point, as numerators over n
Barycentric(i, j, n) == <<n - (i + j), i, j>>

\* the loop of lines 67-73 without its row bound: j runs up to n
RECURSIVE GridRowUnbounded(_, _, _, _)
GridRowUnbounded(f, i, j, n) ==
  IF j < n
  THEN <<OutPoint("face", f, Barycentric(i, j, n)[1], Barycentric(i, j, n)[2],
                  Barycentric(i, j, n)[3], n)>> \o GridRowUnbounded(f, i, j + 1, n)
  ELSE <<>>

\* the loop of lines 67-73, from j
RECURSIVE GridRow(_, _, _, _)
GridRow(f, i, j, n) ==
  IF j < n - i
  THEN <<OutPoint("face", f, Barycentric(i, j, n)[1], Barycentric(i, j, n)[2],
                  Barycentric(i, j, n)[3], n)>> \o GridRow(f, i, j + 1, n)
  ELSE <<>>

\* the loop of lines 65-74, from i
RECURSIVE GridRows(_, _, _)
GridRows(f, i, n) ==
  IF i < n THEN GridRow(f, i, 1, n) \o GridRows(f, i + 1, n) ELSE <<>>

\* n of lines 62-63
GridSize(d_p0p1, d_p0p2, distance) ==
  Max2(CeilDiv(d_p0p1, distance), CeilDiv(d_p0p2, distance))

\* triangle_grid_sampling, lines 50-77, on the face f = (p0, p1, p2) of m
triangle_grid_sampling(m, f, distance) ==
  LET t == m.triangles[f]
  IN GridRows(f, 1, GridSize(EdgeLength(m, t[1], t[2]), EdgeLength(m, t[1], t[3]), distance))

\* the loop of lines 359-364, from i
RECURSIVE EdgeSteps(_, _, _)
EdgeSteps(e, i, nb_pts) ==
  IF i < nb_pts
  THEN <<OutPoint("edge", e, i, 0, 0, nb_pts)>> \o EdgeSteps(e, i + 1, nb_pts)
  ELSE <<>>

\* line 348 without the set of sampled edges
FirstVisitAlways(e, sampled_edges) == TRUE

\* line 348: sampled_edges.insert(edge(hd, tm)).second
FirstVisit(e, sampled_edges) == e \notin sampled_edges

\* lines 346-372: the halfedges i+1..3 of the face fi; st holds out, the
\* two sets of line 339-340 and whether FT(1) / FT(nb_pts) divided by zero
RECURSIVE HalfedgeLoop(_, _, _, _, _, _, _)
HalfedgeLoop(m, distance, sample_edges, add_vertices, fi, i, st) ==
  IF i = 3
  THEN st
  ELSE LET hd == Halfedges(m.triangles[fi])[i + 1]
           e == EdgeId(hd[1], hd[2])
           nb_pts == CeilDiv(EdgeLength(m, hd[1], hd[2]), distance)
           st1 == IF sample_edges /\ FirstVisit(e, st.sampled_edges)
                  THEN [st EXCEPT !.sampled_edges = @ \cup {e},
                                  !.division_by_zero = @ \/ nb_pts = 0,
                                  !.out = @ \o EdgeSteps(e, 1, nb_pts)]
                  ELSE st
           st2 == IF add_vertices /\ hd[2] \notin st1.endpoints
                  THEN [st1 EXCEPT !.endpoints = @ \cup {hd[2]},
                                   !.out = Append(@, OutPoint("vertex", hd[2], 0, 0, 0, 0))]
                  ELSE st1
       IN HalfedgeLoop(m, distance, sample_edges, add_vertices, fi, i + 1, st2)

\* lines 342-382: the faces fi.. of the mesh
RECURSIVE FaceLoop(_, _, _, _, _, _, _)
FaceLoop(m, distance, sample_faces, sample_edges, add_vertices, fi, st) ==
  IF fi > Len(m.triangles)
  THEN st
  ELSE LET st1 == HalfedgeLoop(m, distance, sample_edges, add_vertices, fi, 0, st)
           st2 == IF sample_faces
                  THEN [st1 EXCEPT !.out = @ \o triangle_grid_sampling(m, fi, distance)]
                  ELSE st1
       IN FaceLoop(m, distance, sample_faces, sample_edges, add_vertices, fi + 1, st2)

\* sample_triangles, lines 323-384
sample_triangles(m, distance, o, sample_faces, sample_edges, add_vertices) ==
  FaceLoop(m, distance, sample_faces, sample_edges, add_vertices, 1,
           [out |-> o, sampled_edges |-> {}, endpoints |-> {}, division_by_zero |-> FALSE])

\* lines 680-687: the triangles fi.. of a soup
RECURSIVE SoupLoop(_, _, _, _)
SoupLoop(m, distance, fi, o) ==
  IF fi > Len(m.triangles)
  THEN o
  ELSE SoupLoop(m, distance, fi + 1, o \o triangle_grid_sampling(m, fi, distance))

\* internal_sample_triangles, lines 546-549 (mesh) and 678-688 (soup)
internal_sample_triangles(m, distance, o, smpl_fcs, smpl_dgs) ==
  IF m.kind = "mesh"
  THEN sample_triangles(m, distance, o, smpl_fcs, smpl_dgs, FALSE)
  ELSE [out |-> SoupLoop(m, distance, 1, o), division_by_zero |-> FALSE]

\* sample_points, lines 451-457 and 618-621
sample_points_of(m) == [v \in DOMAIN m.points |-> OutPoint("vertex", v, 0, 0, 0, 0)]

\* lines 270-273: (std::max)(static_cast<std::size_t>(std::ceil(area) * nb_pts_a_u), 1)
FacePoints(area, density) == Max2(Truncate(RatMul(<<Ceil(area), 1>>, density)), 1)

\* lines 265-281: the faces fi.. of the Monte Carlo sampling
RECURSIVE MonteCarloFaces(_, _, _, _)
MonteCarloFaces(m, fi, nb_points_per_face, density) ==
  IF fi > Len(m.triangles)
  THEN <<>>
  ELSE Repeat(OutPoint("mc_face", fi, 0, 0, 0, 0),
              IF nb_points_per_face = 0
              THEN FacePoints(get_tr_area(m, m.triangles[fi]), density)
              ELSE nb_points_per_face)
         \o MonteCarloFaces(m, fi + 1, nb_points_per_face, density)

\* lines 505-521: the edges of E
RECURSIVE MonteCarloEdges(_, _, _, _)
MonteCarloEdges(m, E, nb_points_per_edge, density) ==
  IF E = {}
  THEN <<>>
  ELSE LET ed == CHOOSE x \in E : \A y \in E : EdgeId(x[1], x[2]) <= EdgeId(y[1], y[2])
       IN Repeat(OutPoint("mc_edge", EdgeId(ed[1], ed[2]), 0, 0, 0, 0),
                 IF nb_points_per_edge = 0
                 THEN Max2(Ceil(RatMul(<<EdgeLength(m, ed[1], ed[2]), 1>>, density)), 1)
                 ELSE nb_points_per_edge)
            \o MonteCarloEdges(m, E \ {ed}, nb_points_per_edge, density)

\* ms_edges_sample, lines 497-522 (mesh) and 663-666 (soup)
ms_edges_sample(m, nb_points_per_edge, l_u, min_sq) ==
  IF m.kind = "mesh"
  THEN MonteCarloEdges(m, edges(m), nb_points_per_edge,
                       IF nb_points_per_edge = 0 /\ IsZero(l_u)
                       THEN <<1, approximate_sqrt(min_sq)>>
                       ELSE l_u)
  ELSE <<>>

\* lines 529-537: the number of points ru_edges_sample draws
EdgePoints(m, nb_points, l_u, a_u) ==
  IF nb_points # 0 THEN nb_points
  ELSE IF IsZero(l_u) THEN Len(m.points)
  ELSE Ceil(RatMul(mesh_length(m), a_u))

\* ru_edges_sample, lines 523-539 (mesh) and 668-671 (soup)
ru_edges_sample(m, nb_points, l_u, a_u) ==
  IF m.kind = "mesh"
  THEN Repeat(OutPoint("ru_edge", 0, 0, 0, 0, 0), EdgePoints(m, nb_points, l_u, a_u))
  ELSE <<>>

\* lines 295-305: the number of points drawn on the faces
SurfacePoints(m, nb_points, a_u) ==
  IF nb_points # 0 THEN nb_points
  ELSE IF IsZero(a_u) THEN get_points_size(m)
  ELSE Ceil(RatMul(sum_of_weights(m), a_u))

\* lines 209-215 without the test of lines 213-215
UseRandomUniformUnlessOff(rs, gs, ms) == rs # "false"

\* use_rs of lines 209-215: the value given, true by default, and false
\* when grid or Monte Carlo sampling is on and no value was given
UseRandomUniform(rs, gs, ms) ==
  IF (gs \/ ms) /\ rs = "default" THEN FALSE ELSE rs # "false"

\* sample_triangle_mesh and sample_triangle_soup build the sampler (lines
\* 853-860) with min_sq_edge_length at its initial value (lines 443, 610)
InitSampler ==
  /\ BebOff
  /\ NaiveOff
  /\ ApproxOff
  /\ SymOff
  /\ TwoOff
  /\ smesh \in SamplerInputs
  /\ np \in NamedParameters
  /\ sp_pc = "start"
  /\ use_rs = FALSE
  /\ use_gs = FALSE
  /\ use_ms = FALSE
  /\ nb_pts_a_u = <<0, 1>>
  /\ nb_pts_l_u = <<0, 1>>
  /\ min_sq_edge_length = numeric_limits_max
  /\ grid_spacing_ = 0
  /\ out = <<>>
  /\ division_by_zero = FALSE

\* lines 206-221
ReadParameters ==
  /\ sp_pc = "start"
  /\ use_gs' = np.grid_sampling
  /\ use_ms' = np.monte_carlo_sampling
  /\ use_rs' = UseRandomUniform(np.random_uniform_sampling, np.grid_sampling,
                                 np.monte_carlo_sampling)
  /\ nb_pts_a_u' = np.nb_points_per_area_unit
  /\ nb_pts_l_u' = np.nb_points_per_distance_unit
  /\ sp_pc' = "vertices"
  /\ UNCHANGED <<smesh, np, min_sq_edge_length, grid_spacing_, out, division_by_zero,
                 bebVars, naiveVars, approxVars, symVars, twoVars>>

\* lines 223-225
SampleVertices ==
  /\ sp_pc = "vertices"
  /\ out' = IF np.do_sample_vertices THEN out \o sample_points_of(smesh) ELSE out
  /\ sp_pc' = "grid"
  /\ UNCHANGED <<smesh, np, use_rs, use_gs, use_ms, nb_pts_a_u, nb_pts_l_u,
                 min_sq_edge_length, grid_spacing_, division_by_zero,
                 bebVars, naiveVars, approxVars, symVars, twoVars>>

\* lines 227-239
GridSampling ==
  /\ sp_pc = "grid"
  /\ IF use_gs
     THEN LET spacing == IF np.grid_spacing = 0
                         THEN get_minimum_edge_length(smesh, min_sq_edge_length)
                         ELSE np.grid_spacing
              st == internal_sample_triangles(smesh, spacing, out,
                                              np.do_sample_faces, np.do_sample_edges)
          IN /\ grid_spacing_' = spacing
             /\ min_sq_edge_length' = IF np.grid_spacing = 0
                                      THEN get_minimum_edge_length(smesh, min_sq_edge_length)
                                      ELSE min_sq_edge_length
             /\ out' = st.out
             /\ division_by_zero' = (division_by_zero \/ st.division_by_zero)
     ELSE UNCHANGED <<grid_spacing_, min_sq_edge_length, out, division_by_zero>>
  /\ sp_pc' = "monte_carlo"
  /\ UNCHANGED <<smesh, np, use_rs, use_gs, use_ms, nb_pts_a_u, nb_pts_l_u,
                 bebVars, naiveVars, approxVars, symVars, twoVars>>

\* lines 241-287
MonteCarloSampling ==
  /\ sp_pc = "monte_carlo"
  /\ IF use_ms
     THEN LET nb_points_per_face == np.number_of_points_per_face
              nb_points_per_edge == np.number_of_points_per_edge
              measured == \/ (nb_points_per_face = 0 /\ IsZero(nb_pts_a_u))
                          \/ (nb_points_per_edge = 0 /\ IsZero(nb_pts_l_u))
              member == IF measured
                        THEN get_minimum_edge_length(smesh, min_sq_edge_length)
                        ELSE min_sq_edge_length
              local == IF measured THEN member ELSE numeric_limits_max
              density == IF np.do_sample_faces /\ nb_points_per_face = 0 /\ IsZero(nb_pts_a_u)
                         THEN <<2, local>>
                         ELSE nb_pts_a_u
          IN /\ min_sq_edge_length' = member
             /\ nb_pts_a_u' = density
             /\ out' = out
                  \o (IF np.do_sample_faces
                      THEN MonteCarloFaces(smesh, 1, nb_points_per_face, density)
                      ELSE <<>>)
                  \o (IF np.do_sample_edges
                      THEN ms_edges_sample(smesh, nb_points_per_edge, nb_pts_l_u, member)
                      ELSE <<>>)
     ELSE UNCHANGED <<min_sq_edge_length, nb_pts_a_u, out>>
  /\ sp_pc' = "random_uniform"
  /\ UNCHANGED <<smesh, np, use_rs, use_gs, use_ms, nb_pts_l_u, grid_spacing_,
                 division_by_zero, bebVars, naiveVars, approxVars, symVars, twoVars>>

\* lines 289-312
RandomUniformSampling ==
  /\ sp_pc = "random_uniform"
  /\ IF use_rs
     THEN out' = out
            \o (IF np.do_sample_faces
                THEN Repeat(OutPoint("ru_face", 0, 0, 0, 0, 0),
                            SurfacePoints(smesh, np.number_of_points_on_faces, nb_pts_a_u))
                ELSE <<>>)
            \o (IF np.do_sample_edges
                THEN ru_edges_sample(smesh, np.number_of_points_on_edges, nb_pts_l_u, nb_pts_a_u)
                ELSE <<>>)
     ELSE out' = out
  /\ sp_pc' = "done"
  /\ UNCHANGED <<smesh, np, use_rs, use_gs, use_ms, nb_pts_a_u, nb_pts_l_u,
                 min_sq_edge_length, grid_spacing_, division_by_zero,
                 bebVars, naiveVars, approxVars, symVars, twoVars>>

\* procede, lines 200-313
NextSampler ==
  \/ ReadParameters
  \/ SampleVertices
  \/ GridSampling
  \/ MonteCarloSampling
  \/ RandomUniformSampling

SpecSampler == InitSampler /\ [][NextSampler]_vars

\* procede, lines 200-313, as one function of the input and of the named
\* parameters: the points it writes to out
procede_out(m, params) ==
  LET rs == UseRandomUniform(params.random_uniform_sampling, params.grid_sampling,
                             params.monte_carlo_sampling)
      o1 == IF params.do_sample_vertices THEN sample_points_of(m) ELSE <<>>
      spacing == IF params.grid_spacing = 0
                 THEN get_minimum_edge_length(m, numeric_limits_max)
                 ELSE params.grid_spacing
      o2 == IF params.grid_sampling
            THEN internal_sample_triangles(m, spacing, o1, params.do_sample_faces,
                                           params.do_sample_edges).out
            ELSE o1
      nb_points_per_face == params.number_of_points_per_face
      nb_points_per_edge == params.number_of_points_per_edge
      measured == \/ (nb_points_per_face = 0 /\ IsZero(params.nb_points_per_area_unit))
                  \/ (nb_points_per_edge = 0 /\ IsZero(params.nb_points_per_distance_unit))
      member == get_minimum_edge_length(m, numeric_limits_max)
      local == IF measured THEN member ELSE numeric_limits_max
      a_u == IF /\ params.monte_carlo_sampling
                /\ params.do_sample_faces
                /\ nb_points_per_face = 0
                /\ IsZero(params.nb_points_per_area_unit)
             THEN <<2, local>>
             ELSE params.nb_points_per_area_unit
      o3 == IF params.monte_carlo_sampling
            THEN o2 \o (IF params.do_sample_faces
                        THEN MonteCarloFaces(m, 1, nb_points_per_face, a_u)
                        ELSE <<>>)
                    \o (IF params.do_sample_edges
                        THEN ms_edges_sample(m, nb_points_per_edge,
                                             params.nb_points_per_distance_unit, member)
                        ELSE <<>>)
            ELSE o2
  IN IF rs
     THEN o3 \o (IF params.do_sample_faces
                 THEN Repeat(OutPoint("ru_face", 0, 0, 0, 0, 0),
                             SurfacePoints(m, params.number_of_points_on_faces, a_u))
                 ELSE <<>>)
             \o (IF params.do_sample_edges
                 THEN ru_edges_sample(m, params.number_of_points_on_edges,
                                      params.nb_points_per_distance_unit, a_u)
                 ELSE <<>>)
     ELSE o3

\* ------------------------------------------------------------------ claims
\* The depth bound of the model never stops a subdivision the code would do
\* when error_bound > 0.
DepthBoundNotReached ==
  \A c \in BagToSet(candidate_triangles) :
    (pc = "loop" /\ LoopCond /\ IsTop(c) /\ Contributes(c) /\ ~EdgesBelowBound(c))
      => c.d < MaxDepth

\* C1: when bounded_error_Hausdorff_impl returns, however the loop ended,
\* global_bounds.second - global_bounds.first <= error_bound.
C1_GapClosedAtReturn ==
  pc = "done" => global_bounds[2] - global_bounds[1] <= error_bound

\* C2: in every state of the loop and at return the true directed Hausdorff
\* distance lies in [global_bounds.first, global_bounds.second].
C2_BracketHoldsTruth ==
  global_bounds[1] <= TrueHausdorff /\ TrueHausdorff <= global_bounds[2]

\* C3: the returned value is the midpoint of the final bracket and differs
\* from the true directed Hausdorff distance by at most error_bound / 2
\* (result is in half units: |result / 2 - H| <= error_bound / 2).
C3_MidpointWithinHalfBound ==
  pc = "done" =>
    /\ result = global_bounds[1] + global_bounds[2]
    /\ Abs(result - 2 * TrueHausdorff) <= error_bound

\* C4: for error_bound > 0 the refinement loop terminates.
C4_LoopTerminates == <>(pc = "done")

C4_Witness ==
  /\ pc = "done"
  /\ \E c \in BagToSet(candidate_triangles) : c.d = 2

\* C5: a call with error_bound <= 0 is rejected before any iteration of the
\* refinement loop runs (every iteration pops a candidate).
C5_NoIterationWhenNonPositive ==
  [][error_bound <= 0 => candidate_triangles' = candidate_triangles]_vars

\* C6: after initialization global_bounds.first never decreases and
\* global_bounds.second never increases.
C6_GlobalBoundsMonotone ==
  [][/\ global_bounds'[1] >= global_bounds[1]
     /\ global_bounds'[2] <= global_bounds[2]]_vars

C6_Witness ==
  /\ pc = "done"
  /\ global_bounds[1] > seed_bounds[1]
  /\ global_bounds[2] < seed_bounds[2]

\* C7: run side by side on the same input, the bounded-error implementation
\* with error_bound eps and the naive implementation at the finest
\* resolution return values that differ by at most eps / 2
\* (result is in half units).
C7_AgreesWithNaive ==
  (pc = "done" /\ naive_pc = "done" /\ naive_error_bound = FinestErrorBound)
    => Abs(result - 2 * naive_result) <= error_bound

\* Distance from a point to the target mesh, found without hint.
ClosestDistance(q) == SetMin({approximate_sqrt(squared_distance(p, q)) : p \in tm})

\* True directed Hausdorff distance from a mesh of points A to tm.
DirectedHausdorff(A) == SetMax({ClosestDistance(a) : a \in A})

\* C8: approximate_Hausdorff_distance_impl returns a value >= 0 in both
\* modes, for every sample sequence, the empty one included, and the value
\* is 0 exactly when every sample is a point of the target mesh.
C8_NonNegativeZeroOnMesh ==
  ad_pc = "done" =>
    /\ ad_result >= 0
    /\ (ad_result = 0 <=> Range(original_sample_points) \subseteq tm)

\* C9: for a non-empty sample sequence the parallel mode returns, whatever
\* the splits, the bodies the ranges run on and the order of runs and
\* joins, the value the sequential loop returns; until then no body holds
\* more than that value.
C9_ParallelEqualsSequential ==
  (tag = "Parallel_tag" /\ original_sample_points # <<>>) =>
    LET sequential == DistanceLoop(tm, original_sample_points, 0,
                                   Len(original_sample_points), hint, 0)
    IN /\ ad_pc = "done" => ad_result = sequential
       /\ \A b \in DOMAIN bodies : bodies[b].distance <= sequential

C9_Witness ==
  /\ ad_pc = "done"
  /\ tag = "Parallel_tag"
  /\ Len(bodies) >= 2
  /\ \E b \in DOMAIN bodies : bodies[b].runs >= 2
  /\ ad_result > 0

\* C10: the returned value is the largest, over the samples, of the distance
\* from the sample to the target mesh (0 for no sample in sequential mode;
\* the parallel mode is covered for non-empty sequences), whatever the
\* order of the samples, the hint and the entry point
\* (approximate_Hausdorff_distance or max_distance_to_triangle_mesh); it is
\* at most the directed Hausdorff distance to tm of any mesh that holds
\* all the samples.
C10_MaxOfClosestDistances ==
  (ad_pc = "done" /\ (tag = "Sequential_tag" \/ original_sample_points # <<>>)) =>
    /\ ad_result = SetMax({0} \cup {ClosestDistance(q) : q \in Range(original_sample_points)})
    /\ \A A \in SUBSET Positions :
         (A # {} /\ Range(original_sample_points) \subseteq A) => ad_result <= DirectedHausdorff(A)

C10_Witness ==
  /\ ad_pc = "done"
  /\ entry = "max_distance_to_triangle_mesh"
  /\ Len(original_sample_points) >= 2
  /\ original_sample_points # sample_points
  /\ approximate_sqrt(squared_distance(hint, original_sample_points[1]))
       > ClosestDistance(original_sample_points[1])
  /\ ad_result > 0

\* Samples sample_triangle_mesh produces whatever the generator draws.
SamplingIsDeterministic(params) == ~params.random_uniform_sampling

\* C11: each call of approximate_symmetric_Hausdorff_distance returns the
\* larger of its two directed values, and the call with the meshes and
\* their sampling parameters swapped returns the same value as the call
\* before it.
C11_SymmetricUnderSwap ==
  sym_pc = "done" =>
    /\ \A c \in 1..2 : sym_value[c] = Max2(sym_directed[2 * c - 1], sym_directed[2 * c])
    /\ sym_value[1] = sym_value[2]

\* C11, amended: each call returns the larger of its two directed values;
\* the swapped call returns the same value when neither mesh is sampled
\* with random draws, and then both directed values are the ones of the
\* swapped call in the other order.
C11_SymmetricWhenSamplingDeterministic ==
  sym_pc = "done" =>
    /\ \A c \in 1..2 : sym_value[c] = Max2(sym_directed[2 * c - 1], sym_directed[2 * c])
    /\ (SamplingIsDeterministic(sym_np[1]) /\ SamplingIsDeterministic(sym_np[2])) =>
         /\ sym_directed[1] = sym_directed[4]
         /\ sym_directed[2] = sym_directed[3]
         /\ sym_value[1] = sym_value[2]

C11_Witness ==
  /\ sym_pc = "done"
  /\ SamplingIsDeterministic(sym_np[1]) /\ SamplingIsDeterministic(sym_np[2])
  /\ sym_directed[1] > sym_directed[2]
  /\ sym_directed[2] > 0
  /\ sym_value[1] = sym_value[2]

PointsOfKind(kind) == {k \in DOMAIN out : out[k][1] = kind}

PointsOf(kind, id) == {k \in DOMAIN out : out[k][1] = kind /\ out[k][2] = id}

\* The phases of procede that are over.
VerticesDone == sp_pc \in {"grid", "monte_carlo", "random_uniform", "done"}

GridDone == sp_pc \in {"monte_carlo", "random_uniform", "done"}

MonteCarloDone == sp_pc \in {"random_uniform", "done"}

\* Length of the shortest edge of non-zero length.
ShortestEdge(m) ==
  SetMin({EdgeLength(m, e[1], e[2]) : e \in {x \in edges(m) : EdgeLength(m, x[1], x[2]) > 0}})

\* C13: with no strategy option only uniform-random sampling runs;
\* uniform-random sampling is off exactly when it is switched off, or when
\* grid or Monte Carlo sampling is on and it was not given; given as true
\* it runs along with the others; grid and Monte Carlo sampling run iff
\* their own flag is true.  Only strategies that run write points.
C13_StrategySelection ==
  /\ VerticesDone =>
       /\ use_gs = np.grid_sampling
       /\ use_ms = np.monte_carlo_sampling
       /\ ~use_rs <=> \/ np.random_uniform_sampling = "false"
                      \/ /\ np.random_uniform_sampling = "default"
                         /\ (np.grid_sampling \/ np.monte_carlo_sampling)
       /\ (np.random_uniform_sampling = "default" /\ ~np.grid_sampling
             /\ ~np.monte_carlo_sampling) => (use_rs /\ ~use_gs /\ ~use_ms)
       /\ np.random_uniform_sampling = "true" => use_rs
  /\ sp_pc = "done" =>
       /\ (PointsOfKind("face") \cup PointsOfKind("edge") # {}) => np.grid_sampling
       /\ (PointsOfKind("mc_face") \cup PointsOfKind("mc_edge") # {}) => np.monte_carlo_sampling
       /\ (PointsOfKind("ru_face") \cup PointsOfKind("ru_edge") # {}) => use_rs
       /\ (np.monte_carlo_sampling /\ np.do_sample_faces) => PointsOfKind("mc_face") # {}
       /\ (use_rs /\ np.do_sample_faces /\ np.number_of_points_on_faces # 0)
            => PointsOfKind("ru_face") # {}

C13_Witness ==
  /\ sp_pc = "done"
  /\ np.random_uniform_sampling = "true" /\ np.grid_sampling /\ np.monte_carlo_sampling
  /\ PointsOfKind("face") # {}
  /\ PointsOfKind("mc_face") # {}
  /\ PointsOfKind("ru_face") # {}

\* The grid has sampled the faces: always in a soup (lines 678-688), under
\* sample_faces in a mesh.
GridFacesSampled == GridDone /\ use_gs /\ (np.do_sample_faces \/ smesh.kind = "soup")

\* n of a face for the spacing used: ceil(max(|p0p1|, |p0p2|) / s)
RowsOf(f) ==
  Ceil(<<Max2(EdgeLength(smesh, smesh.triangles[f][1], smesh.triangles[f][2]),
              EdgeLength(smesh, smesh.triangles[f][1], smesh.triangles[f][3])),
         grid_spacing_>>)

C15_EveryTriangleHasGridPoint ==
  (GridDone /\ use_gs /\ np.do_sample_faces) =>
    \A f \in DOMAIN smesh.triangles : PointsOf("face", f) # {}

\* C16: when grid sampling is on and grid_spacing is not given or is 0, the
\* spacing used is the length of the shortest edge of non-zero length.
C16_DefaultSpacingIsShortestEdge ==
  (GridDone /\ use_gs /\ np.grid_spacing = 0) => grid_spacing_ = ShortestEdge(smesh)

\* C17: in grid sampling of a mesh with sample_edges on, an edge of length
\* L > 0 receives exactly the ceil(L / spacing) - 1 division points of its
\* ceil(L / spacing) equal steps, each once, also when two faces share the
\* edge, and an edge of length 0 receives none; with sample_vertices on
\* every vertex is written exactly once.
C17_EdgesOnceVerticesOnce ==
  /\ (GridDone /\ use_gs /\ np.do_sample_edges /\ smesh.kind = "mesh") =>
       \A e \in edges(smesh) :
         LET L == EdgeLength(smesh, e[1], e[2])
             steps == Ceil(<<L, grid_spacing_>>)
             id == EdgeId(e[1], e[2])
         IN /\ Cardinality(PointsOf("edge", id)) = IF L > 0 THEN steps - 1 ELSE 0
            /\ \A i \in 1..(steps - 1) :
                 Cardinality({k \in PointsOf("edge", id) :
                                out[k] = OutPoint("edge", id, i, 0, 0, steps)}) = 1
  /\ (VerticesDone /\ np.do_sample_vertices) =>
       \A v \in DOMAIN smesh.points : Cardinality(PointsOf("vertex", v)) = 1

C17_Witness ==
  /\ sp_pc = "done"
  /\ smesh = TwoFaceMesh
  /\ use_gs /\ np.do_sample_edges /\ np.do_sample_vertices
  /\ Cardinality(PointsOf("edge", EdgeId(2, 3))) = 4
  /\ Cardinality(PointsOfKind("vertex")) = 4

\* The density of face points the caller asked for, or the default
\* 2 / (shortest edge of non-zero length)^2.
AreaDensity ==
  IF IsZero(np.nb_points_per_area_unit)
  THEN <<2, ShortestEdge(smesh) * ShortestEdge(smesh)>>
  ELSE np.nb_points_per_area_unit

\* C18: in Monte Carlo sampling a face receives number_of_points_per_face
\* points when that is not 0, and max(1, ceil(face area x density))
\* otherwise, the density being the one given or, by default,
\* 2 / (shortest non-zero edge length)^2; the faces together receive at
\* least total area x density points.
C18_MonteCarloFaceCount ==
  (MonteCarloDone /\ use_ms /\ np.do_sample_faces) =>
    /\ \A f \in DOMAIN smesh.triangles :
         Cardinality(PointsOf("mc_face", f))
           = IF np.number_of_points_per_face # 0
             THEN np.number_of_points_per_face
             ELSE Max2(1, Ceil(RatMul(get_tr_area(smesh, smesh.triangles[f]), AreaDensity)))
    /\ np.number_of_points_per_face = 0 =>
         Cardinality(PointsOfKind("mc_face")) >= Ceil(RatMul(sum_of_weights(smesh), AreaDensity))

\* C19: in uniform-random sampling of a mesh with sample_edges on, the
\* number of points drawn on the edges is number_of_points_on_edges when
\* set, else ceil(sum of the edge lengths x
\* number_of_points_per_distance_unit) when that is set, else
\* num_vertices(tm).
C19_UniformEdgeCount ==
  (sp_pc = "done" /\ use_rs /\ np.do_sample_edges /\ smesh.kind = "mesh") =>
    Cardinality(PointsOfKind("ru_edge"))
      = IF np.number_of_points_on_edges # 0
        THEN np.number_of_points_on_edges
        ELSE IF ~IsZero(np.nb_points_per_distance_unit)
        THEN Ceil(RatMul(mesh_length(smesh), np.nb_points_per_distance_unit))
        ELSE Len(smesh.points)

\* C20: in uniform-random sampling with sample_faces on, the number of
\* points drawn on the faces is number_of_points_on_faces when set, else
\* ceil(total area x number_of_points_per_area_unit) when the caller gave
\* that density, else num_vertices(tm) (points.size() for a soup), also
\* when Monte Carlo sampling has run before in the same call.
C20_UniformFaceCount ==
  (sp_pc = "done" /\ use_rs /\ np.do_sample_faces) =>
    Cardinality(PointsOfKind("ru_face"))
      = IF np.number_of_points_on_faces # 0
        THEN np.number_of_points_on_faces
        ELSE IF ~IsZero(np.nb_points_per_area_unit)
        THEN Ceil(RatMul(sum_of_weights(smesh), np.nb_points_per_area_unit))
        ELSE Len(smesh.points)

\* The points of out that are vertices, points of edges, points of faces.
PointClasses ==
  [vertices |-> {"vertex"},
   edges |-> {"edge", "mc_edge", "ru_edge"},
   faces |-> {"face", "mc_face", "ru_face"}]

RECURSIVE PointsOfClass(_, _)
PointsOfClass(o, class) ==
  IF o = <<>> THEN <<>>
  ELSE (IF Head(o)[1] \in PointClasses[class] THEN <<Head(o)>> ELSE <<>>)
         \o PointsOfClass(Tail(o), class)

\* The named parameters with one selection flag switched off.
WithoutClass(params, class) ==
  CASE class = "vertices" -> [params EXCEPT !.do_sample_vertices = FALSE]
    [] class = "edges" -> [params EXCEPT !.do_sample_edges = FALSE]
    [] class = "faces" -> [params EXCEPT !.do_sample_faces = FALSE]

FlagOf(params, class) ==
  CASE class = "vertices" -> params.do_sample_vertices
    [] class = "edges" -> params.do_sample_edges
    [] class = "faces" -> params.do_sample_faces

\* C21: for a mesh and for a soup and under every strategy, a class of
\* points (vertices, edge points, face points) whose flag is off is absent
\* from the output, and the points of the other two classes are the ones
\* the same call writes with that flag switched off.
C21_FlagsIndependent ==
  sp_pc = "done" =>
    \A class \in DOMAIN PointClasses :
      /\ ~FlagOf(np, class) => PointsOfClass(out, class) = <<>>
      /\ \A other \in DOMAIN PointClasses \ {class} :
           PointsOfClass(procede_out(smesh, WithoutClass(np, class)), other)
             = PointsOfClass(out, other)

\* C22: no step of the sampling evaluates a quotient whose denominator is
\* zero, whatever the input (zero-length edges included) and the strategy.
C22_NoDivisionByZero == ~division_by_zero

\* The step is an iteration of the loop of line 1391 that popped c: one
\* copy of c has left the queue (a sub-triangle is never equal to its
\* parent, it has been halved once more).
Popped(c) ==
  /\ pc = "loop"
  /\ BagIn(c, candidate_triangles)
  /\ CopiesIn(c, candidate_triangles') = CopiesIn(c, candidate_triangles) - 1
  /\ iteration'.popped = c

C24_PruneOnlyRemoves ==
  [][\A c \in BagToSet(candidate_triangles) :
       (Popped(c) /\ (c.up <= global_bounds[1] \/ c.up - c.lo <= error_bound)) =>
         /\ candidate_triangles' = candidate_triangles (-) SetToBag({c})
         /\ iteration'.outcome = "pruned"
         /\ iteration'.tests = <<>>
         /\ iteration'.pushed = <<>>
         /\ global_bounds' = global_bounds]_vars

\* A candidate above global.lower was pruned for its own gap, and the loop
\* goes on with the candidates left.
C24_Witness ==
  /\ pc = "loop"
  /\ iteration.outcome = "pruned"
  /\ iteration.popped.up > global_bounds[1]
  /\ iteration.popped.up - iteration.popped.lo <= error_bound
  /\ candidate_triangles # EmptyBag

\* The popped candidate passes the test of line 1404.
NotPruned(c) == c.up > global_bounds[1] /\ c.up - c.lo > error_bound

\* All three edges of a candidate (of squared lengths sq / 4^d) are
\* strictly shorter than error_bound.
AllEdgesShorter(c) ==
  error_bound > 0 /\ \A e \in c.sq : e < error_bound * error_bound * Pow4(c.d)

\* C25: a popped candidate that is not pruned and whose three vertices
\* have the same nearest triangle, or else whose three edges are all
\* shorter than error_bound, is not subdivided and global.lower becomes its
\* upper bound; the same-nearest-triangle test is evaluated first, and the
\* edge-length test only when it failed.
C25_PromoteSetsLower ==
  [][\A c \in BagToSet(candidate_triangles) :
       (Popped(c) /\ NotPruned(c)) =>
         /\ iteration'.tests # <<>>
         /\ iteration'.tests[1][1] = "same_nearest_triangle"
         /\ Len(iteration'.tests) = (IF iteration'.tests[1][2] THEN 1 ELSE 2)
         /\ Len(iteration'.tests) = 2 => iteration'.tests[2][1] = "edge_length"
         /\ (iteration'.tests[1][2] \/ AllEdgesShorter(c)) =>
              /\ global_bounds'[1] = c.up
              /\ iteration'.outcome = "promoted"
              /\ iteration'.pushed = <<>>
              /\ candidate_triangles' = candidate_triangles (-) SetToBag({c})]_vars

\* A candidate was promoted by the edge-length test after the
\* same-nearest-triangle test had failed on it.
C25_Witness ==
  /\ pc = "loop"
  /\ iteration.outcome = "promoted"
  /\ iteration.tests = <<SameNearestTest(FALSE), EdgeLengthTest(TRUE)>>
  /\ global_bounds[1] = iteration.popped.up
  /\ iteration.popped.up > iteration.popped.lo

\* C26: a popped candidate that is neither pruned nor promoted is replaced
\* by four sub-triangles with halved edges, each pushed with bounds of its
\* own, so that the queue holds three candidates more, and global.lower
\* becomes the largest of its previous value and the four lower bounds;
\* every popped candidate is pruned, promoted or subdivided, and which of
\* the three is decided by the test of line 1404 and the two stopping
\* conditions.
C26_SubdivideIntoFour ==
  [][\A c \in BagToSet(candidate_triangles) :
       Popped(c) =>
         LET it == iteration'
             stops == it.tests # <<>> /\ it.tests[Len(it.tests)][2]
         IN /\ it.outcome \in {"pruned", "promoted", "subdivided"}
            /\ (it.outcome = "pruned") = ~NotPruned(c)
            /\ (it.outcome = "promoted") = (NotPruned(c) /\ stops)
            /\ (it.outcome = "subdivided") = (NotPruned(c) /\ ~stops /\ ~AllEdgesShorter(c))
            /\ it.outcome = "subdivided" =>
                 /\ Len(it.pushed) = 4
                 /\ \A i \in 1..4 :
                      /\ it.pushed[i].sq = c.sq
                      /\ it.pushed[i].d = c.d + 1
                      /\ it.pushed[i].lo <= it.pushed[i].up
                 /\ candidate_triangles'
                      = (candidate_triangles (-) SetToBag({c})) (+) SeqToBag(it.pushed)
                 /\ BagCardinality(candidate_triangles')
                      = BagCardinality(candidate_triangles) + 3
                 /\ global_bounds'[1]
                      = SetMax({global_bounds[1]} \cup {it.pushed[i].lo : i \in 1..4})
            /\ it.outcome # "subdivided" => it.pushed = <<>>]_vars

\* A candidate was subdivided and one of its sub-triangles raised
\* global.lower.
C26_Witness ==
  /\ pc = "loop"
  /\ iteration.outcome = "subdivided"
  /\ \E i \in 1..4 : /\ iteration.pushed[i].lo = global_bounds[1]
                      /\ iteration.pushed[i].lo > iteration.popped.lo
  /\ BagCardinality(candidate_triangles) >= 5

\* C27: after every iteration of the refinement loop, whether it pruned,
\* promoted or subdivided, global.upper is the larger of the upper bound of
\* the candidate on top of the queue and global.lower.
C27_UpperRecomputedEachIteration ==
  (pc = "loop" /\ iteration.outcome # "none" /\ candidate_triangles # EmptyBag) =>
    global_bounds[2]
      = Max2(SetMax({x.up : x \in BagToSet(candidate_triangles)}), global_bounds[1])

\* C30: global.lower <= global.upper and no queued candidate has an upper
\* bound above global.upper, in every state of the loop and at the return,
\* where the returned midpoint lies between the two bounds.
C30_BoundsOrderedAndCoverQueue ==
  pc \in {"loop", "done"} =>
    /\ global_bounds[1] <= global_bounds[2]
    /\ \A x \in BagToSet(candidate_triangles) : x.up <= global_bounds[2]
    /\ pc = "done" => (2 * global_bounds[1] <= result /\ result <= 2 * global_bounds[2])

\* The function has returned after subdividing, with candidates left in the
\* queue and global.lower raised above its seeded value.
C30_Witness ==
  /\ pc = "done"
  /\ iteration.outcome = "subdivided"
  /\ candidate_triangles # EmptyBag
  /\ global_bounds[1] > seed_bounds[1]
  /\ global_bounds[1] < global_bounds[2]

\* C28: the closest-point queries are issued on the samples in their
\* spatially sorted order, and the hint of each query is the closest point
\* found for the sample before it in that order (the vertex of tm for the
\* first).
C28_QueriesInSortedOrder ==
  ad_pc = "done" =>
    /\ sample_points # <<>> => queries # {}
    /\ \A q \in queries :
         /\ [i \in DOMAIN q |-> q[i][1]] = sample_points
         /\ \A i \in DOMAIN q :
              q[i][2] = IF i = 1
                        THEN hint
                        ELSE closest_point(tm, q[i - 1][1], q[i - 1][2])

\* The depth at which the quadrisection of a face stops: the least d for
\* which the longest edge L satisfies L / 2^d < error_bound.
LeafDepth(f) ==
  SetMin({d \in 0..4 : SetMax(f.sq) < naive_error_bound * naive_error_bound * Pow4(d)})

\* The largest closest-point distance of a vertex of the sub-triangles of
\* that depth.
LeafValue(f) == f.v[LeafDepth(f) + 1]

====
